---- MODULE Spec2Model ----
(***************************************************************************)
(* Model of ret_micasense_pos (src/upd_micasense_pos_filename.py): the     *)
(* interpolation of MicaSense camera positions from the P1 MRK log.        *)
(*                                                                         *)
(* One run of ret_micasense_pos in a fresh process is modelled statement   *)
(* block by statement block: the selection of the transformer, the EXIF    *)
(* loop over filelist, the MRK loop calling get_P1_position, the           *)
(* transformation of the P1 positions, the creation of the output file,    *)
(* the interpolation loop and the close.  Spec is that run for the target  *)
(* CRS the repository's caller passes, with well-formed inputs; the other  *)
(* specifications of the module start the same actions from other inputs   *)
(* (another CRS, raw EXIF tags, raw MRK lines, an earlier invocation in    *)
(* the same process).                                                      *)
(*                                                                         *)
(* Numbers.  Timestamps are integers (seconds on the common time axis).    *)
(* Python floats are modelled by exact rationals <<n, d>> in lowest terms  *)
(* with d > 0; float rounding and the fixed-precision %10.6f / %10.4f      *)
(* formatting of the record are not modelled: a row holds the values       *)
(* handed to the format.  Python indices are 0-based and a negative index  *)
(* counts from the end; sequences here are 1-based, see At.                *)
(***************************************************************************)
EXTENDS Integers, Sequences, FiniteSets, TLC

(***************************************************************************)
(* Bounds of the model.                                                    *)
(***************************************************************************)
MaxImages == 2      \* images in filelist
MaxFixes == 3       \* fixes logged in one mission, over all its MRK files
MaxTime == 2        \* P1 fixes are logged at seconds 0..MaxTime
MaxDigits == 3      \* digits of an EXIF SubSecTime tag

(***************************************************************************)
(* Program constants.                                                      *)
(***************************************************************************)
GPSUTC_deltat == 0
MICA_deltat == -18
P1_shift_vec == <<0, 0, 0>>

(***************************************************************************)
(* Arithmetic: exact rationals standing for Python floats.                 *)
(***************************************************************************)
Abs(x) == IF x < 0 THEN -x ELSE x

RECURSIVE GCD(_, _)
GCD(x, y) == IF y = 0 THEN x ELSE GCD(y, x % y)

\* n/d in lowest terms with a positive denominator (d # 0).
Norm(n, d) ==
    LET g == GCD(Abs(n), Abs(d))
        s == IF d < 0 THEN -1 ELSE 1
    IN  <<(s * n) \div g, (s * d) \div g>>

Q(x) == <<x, 1>>

DivByZero == <<0, 0>>

\* Python's n / d: ZeroDivisionError when d = 0.
Div(n, d) == IF d = 0 THEN DivByZero ELSE Norm(n, d)

\* Python sequence indexing with a 0-based index i; a negative index counts
\* from the end.  InRange is false where Python raises IndexError.
InRange(seq, i) == -Len(seq) <= i /\ i < Len(seq)
At(seq, i) == IF i >= 0 THEN seq[i + 1] ELSE seq[Len(seq) + i + 1]

\* list.index(v): the 0-based index of the first element equal to v.
ListIndex(seq, v) ==
    (CHOOSE i \in 1..Len(seq) :
        seq[i] = v /\ \A j \in 1..(i - 1) : seq[j] # v) - 1

\* dict[k] = v
DictPut(d, k, v) == [i \in (DOMAIN d) \cup {k} |-> IF i = k THEN v ELSE d[i]]

(***************************************************************************)
(* Coordinate transformation.  The projected coordinates of a geographic   *)
(* point are computed by collaborators outside the repository (the         *)
(* Swisstopo service for the P1 positions, the pyproj transformer for the  *)
(* MicaSense geotags); the service's projection to LV95 is modelled by a   *)
(* fixed affine map, and a pyproj pipeline by that map moved by the        *)
(* pipeline's offset (see transformer_transform below).                    *)
(***************************************************************************)
\* transform_coordinates(lon, lat, alt): the service's answer.  The service
\* answers every request in the runs modelled here.
transform_coordinates(lon, lat, alt) ==
    [easting |-> 100 * lon, northing |-> 50 * lat, altitude |-> alt]

(***************************************************************************)
(* find_nearest(array, value): np.abs(array - value).argmin(), the index    *)
(* (0-based) numpy's argmin returns for the array of distances.  argmin     *)
(* scans the array and keeps an element only when it is smaller than the   *)
(* smallest seen so far.                                                    *)
(***************************************************************************)
\* np.abs(array - value)
AbsDiff(array, value) == [i \in 1..Len(array) |-> Abs(array[i] - value)]

\* A scan that also takes an element equal to the smallest seen so far.
RECURSIVE argminLastFrom(_, _, _)
argminLastFrom(arr, i, best) ==
    IF i > Len(arr)
        THEN best - 1
        ELSE argminLastFrom(arr, i + 1, IF arr[i] <= arr[best] THEN i ELSE best)

find_nearestLast(array, value) == argminLastFrom(AbsDiff(array, value), 2, 1)

\* The scan from element i (1-based) on, best being the index of the smallest
\* element before i.
RECURSIVE argminFrom(_, _, _)
argminFrom(arr, i, best) ==
    IF i > Len(arr)
        THEN best - 1
        ELSE argminFrom(arr, i + 1, IF arr[i] < arr[best] THEN i ELSE best)

argmin(arr) == argminFrom(arr, 2, 1)

find_nearest(array, value) == argmin(AbsDiff(array, value))

\* get_P1_timestamp(p1_mrk_line): the line's GPS time moved to UTC.
get_P1_timestamp(p1_mrk_line) == p1_mrk_line.epoch_secs - GPSUTC_deltat

(***************************************************************************)
(* Inputs of a run.                                                        *)
(*   An image of filelist: its name, whether exifread finds tags in it,    *)
(*   its EXIF capture time (DateTimeOriginal plus SubSecTime, in seconds)  *)
(*   and its geotag.                                                       *)
(*   A line of an MRK file: its GPS time and the logged position.          *)
(***************************************************************************)
Times == 0..MaxTime
CaptureTimes == (-1)..(MaxTime + 1)

\* Image k of a list; an image without tags carries no EXIF time (0 stands
\* for it and is never read).
Image(k, hasTags, t) ==
    [name |-> k, tags |-> hasTags,
     time |-> IF hasTags THEN t + MICA_deltat ELSE 0,
     lat |-> 10 + k, lon |-> 20 + k, alt |-> 500 + k]

\* A fix logged at second t at height h; the aircraft's latitude and
\* longitude follow the time.
MrkLine(t, h) == [epoch_secs |-> t, lat |-> t, lon |-> t, ellh |-> h]

\* Sequences of length 0..n over S.
SeqUpTo(S, n) == UNION {[1..m -> S] : m \in 0..n}

\* The image lists: image k of the list is named k.
FileLists ==
    {[k \in DOMAIN c |-> Image(k, c[k][1], c[k][2])] :
        c \in {d \in SeqUpTo(BOOLEAN \X CaptureTimes, MaxImages) :
                 \A k \in DOMAIN d : ~d[k][1] => d[k][2] = 0}}

\* The fix times of a mission: at least one fix, time-sorted, duplicates
\* allowed.
FixTimes ==
    {ts \in SeqUpTo(Times, MaxFixes) :
        /\ Len(ts) >= 1
        /\ \A i \in 1..(Len(ts) - 1) : ts[i] <= ts[i + 1]}

\* The heights of a flight: a steady climb of HeightStep per fix from the
\* start height.
StartHeights == {-20, 20}
HeightStep(i) == 20 * (i - 1)

\* The fixes ts logged into the files separated after the fixes in cuts.
SplitLog(ts, start, cuts) ==
    LET FileOf(i) == 1 + Cardinality({c \in cuts : c < i})
        First(j) == CHOOSE i \in 1..Len(ts) :
                        FileOf(i) = j /\ \A k \in 1..(i - 1) : FileOf(k) < j
        Size(j) == Cardinality({i \in 1..Len(ts) : FileOf(i) = j})
    IN  [j \in 1..(Cardinality(cuts) + 1) |->
            [k \in 1..Size(j) |->
                MrkLine(ts[First(j) + k - 1],
                        start + HeightStep(First(j) + k - 1))]]

\* A mission: one or more MRK files in time order, each time-sorted, with
\* the P1 switched off for some time between two files.
Missions ==
    UNION {{SplitLog(ts, start, cuts) :
                cuts \in SUBSET {i \in 1..(Len(ts) - 1) : ts[i] < ts[i + 1]},
                start \in StartHeights} :
           ts \in FixTimes}

(***************************************************************************)
(* State.                                                                  *)
(***************************************************************************)
VARIABLES
    filelist,            \* the MicaSense master band images, in discovery order
    mrk_file_list,       \* the MRK files found under mrk_folder
    pc,                  \* the statement block the run is at
    exception,           \* the exception that ended the run, or "none"
    file_i,              \* images of filelist the EXIF loop has visited
    mica_events,         \* corrected capture timestamps
    mica_pos,            \* projected geotags <<E, N, alt>>
    mica_count,
    mrk_file_count,
    loop_count,
    P1_events,           \* module global: timestamps of all P1 fixes
    P1_pos_mrk,          \* module global: <<lat, lon, ellh>> of all P1 fixes
    P1_first_timestamp,  \* module global: file number -> first timestamp
    P1_last_timestamp,   \* module global: file number -> last timestamp
    P1_pos,              \* projected P1 positions <<E, N, h>>
    first_P1_timestamp,
    last_P1_timestamp,
    out_frame,           \* the output file: [state, header, rows]
    count,               \* iterations of the interpolation loop completed
    loc,                 \* locals of the interpolation loop
    epsg_crs,            \* the caller's target CRS identifier
    transformer,         \* the pipeline selected at line 282
    exif_loc,            \* locals of the EXIF loop that outlive an iteration
    stdout,              \* the lines printed so far
    utcoffset            \* the machine's local time zone: local time - UTC

vars == <<filelist, mrk_file_list, pc, exception, file_i, mica_events,
          mica_pos, mica_count, mrk_file_count, loop_count, P1_events,
          P1_pos_mrk, P1_first_timestamp, P1_last_timestamp, P1_pos,
          first_P1_timestamp, last_P1_timestamp, out_frame, count, loc,
          epsg_crs, transformer, exif_loc, stdout, utcoffset>>

inputs == <<filelist, mrk_file_list, epsg_crs, utcoffset>>
exifState == <<file_i, mica_events, mica_pos, mica_count>>
globals == <<P1_events, P1_pos_mrk, P1_first_timestamp, P1_last_timestamp>>
outState == <<out_frame, count, loc, first_P1_timestamp, last_P1_timestamp>>
setup == <<transformer, exif_loc>>

\* [None, None, None], the entry of P1_pos of a fix that was not transformed
\* (lines 400 and 403).
NoPosition == <<>>

\* The locals of the interpolation loop.  Python leaves them unbound before
\* the first iteration; every read below follows an assignment.
NoLocals ==
    [m_cam_time |-> 0, P1_triggered |-> TRUE, a |-> 0, P1_pos_time |-> 0,
     time1 |-> 0, time2 |-> 0,
     upd_pos1 |-> <<0, 0, 0>>, upd_pos2 |-> <<0, 0, 0>>,
     time_delta |-> Q(0),
     upd_micasense_pos |-> <<Q(0), Q(0), Q(0)>>,
     image_name |-> 0, pos_index |-> 0]

\* The locals of the EXIF loop that keep their value from one iteration to
\* the next: unbound before the first assignment.
NoTagValues ==
    [lat_bound |-> FALSE, lat_value |-> 0,
     lon_bound |-> FALSE, lon_value |-> 0,
     alt_bound |-> FALSE, alt_value |-> 0,
     millisec |-> Q(0), temp_timestamp |-> Q(0)]

\* No transformer is selected before line 282.
NoTransformer == [name |-> "unbound", steps |-> 0, offset |-> 0]

\* Entry of ret_micasense_pos: nothing is read, selected, printed or written
\* yet by this invocation.  upd_micasense_pos_filename.py compares datetimes
\* and never reads the machine's time zone: its runs are taken at offset 0.
Entry ==
    /\ mrk_file_list = <<>>
    /\ pc = "crs"
    /\ exception = "none"
    /\ file_i = 0
    /\ mica_events = <<>>
    /\ mica_pos = <<>>
    /\ mica_count = 0
    /\ mrk_file_count = 0
    /\ loop_count = 1
    /\ P1_pos = <<>>
    /\ first_P1_timestamp = 0
    /\ last_P1_timestamp = 0
    /\ out_frame = [state |-> "absent", header |-> FALSE, rows |-> <<>>]
    /\ count = 0
    /\ loc = NoLocals
    /\ transformer = NoTransformer
    /\ exif_loc = NoTagValues
    /\ stdout = <<>>

\* The module globals of a fresh process (lines 38-42).
FreshGlobals ==
    /\ P1_events = <<>>
    /\ P1_pos_mrk = <<>>
    /\ P1_first_timestamp = <<>>
    /\ P1_last_timestamp = <<>>

\* The first invocation in a fresh process, with the target CRS that
\* InterpolateCameraPositions passes.
Init ==
    /\ filelist \in FileLists
    /\ epsg_crs = "2056"
    /\ utcoffset = 0
    /\ Entry
    /\ FreshGlobals

(***************************************************************************)
(* Selection of the transformer (lines 257-282).  pyproj and its PROJ       *)
(* database are collaborators outside the repository: TransformerGroup      *)
(* lists the candidate pipelines from EPSG:4326 to the target CRS, each     *)
(* with its number of steps, for the codes the database knows.              *)
(***************************************************************************)
\* int(epsg_crs) succeeds on a decimal number.
IsDecimal(s) == s \in {"2056", "7855", "99999"}

\* The codes the database resolves.
KnownCRS == {"2056", "7855"}

\* TransformerGroup(EPSG_4326, code).transformers, in the library's order.
TransformerGroup(code) ==
    IF code = "2056"
        THEN <<[name |-> "lv95 grid", steps |-> 3, offset |-> 1],
               [name |-> "lv95", steps |-> 2, offset |-> 0],
               [name |-> "lv95 ballpark", steps |-> 2, offset |-> 2]>>
        ELSE <<[name |-> "mga55", steps |-> 2, offset |-> 7000],
               [name |-> "mga55 grid", steps |-> 4, offset |-> 7001]>>

\* min(step_count)
Min(seq) ==
    CHOOSE m \in {seq[i] : i \in 1..Len(seq)} :
        \A i \in 1..Len(seq) : m <= seq[i]

\* The library's own choice: the first pipeline of the group.
SelectFirstTransformer(transf_group) == At(transf_group, 0)

\* lines 276-282: the first pipeline with the fewest steps
SelectTransformer(transf_group) ==
    LET step_count == [i \in 1..Len(transf_group) |-> transf_group[i].steps]
        min_step_idx == ListIndex(step_count, Min(step_count))
    IN  At(transf_group, min_step_idx)

\* transformer.transform(lat, lon) -> (E, N)
transformer_transform(lat, lon) ==
    <<100 * lon + transformer.offset, 50 * lat + transformer.offset>>

\* A line of stdout: the text printed and the numbers printed with it.
Line(text, values) == [text |-> text, values |-> values]

\* Lines 257-282 with a failure of line 272 caught and the run going on
\* with the pipeline of EPSG:2056.
ResolveCRSUnchecked ==
    /\ pc = "crs"
    /\ stdout' = Append(stdout, Line("Loading micasense images", <<>>))
    /\ transformer' =
          SelectTransformer(TransformerGroup(
              IF IsDecimal(epsg_crs) /\ epsg_crs \in KnownCRS
                  THEN epsg_crs ELSE "2056"))
    /\ pc' = "exif"
    /\ UNCHANGED <<inputs, exception, exifState, mrk_file_count, loop_count,
                   globals, P1_pos, outState, exif_loc>>

ResolveCRS ==
    /\ pc = "crs"
    /\ stdout' = Append(stdout, Line("Loading micasense images", <<>>))
    /\ IF ~IsDecimal(epsg_crs)
          THEN /\ pc' = "error"
               /\ exception' = "ValueError"
               /\ UNCHANGED transformer
          ELSE IF epsg_crs \notin KnownCRS
          THEN /\ pc' = "error"
               /\ exception' = "CRSError"
               /\ UNCHANGED transformer
          ELSE /\ transformer' = SelectTransformer(TransformerGroup(epsg_crs))
               /\ pc' = "exif"
               /\ UNCHANGED exception
    /\ UNCHANGED <<inputs, exifState, mrk_file_count, loop_count, globals,
                   P1_pos, outState, exif_loc>>

(***************************************************************************)
(* The EXIF loop (lines 292-354): one iteration per image of filelist.     *)
(***************************************************************************)
\* "if not tags: continue": an image without tags adds nothing.
ReadImageSkip ==
    /\ pc = "exif"
    /\ file_i < Len(filelist)
    /\ ~filelist[file_i + 1].tags
    /\ file_i' = file_i + 1
    /\ UNCHANGED <<inputs, pc, exception, mica_events, mica_pos, mica_count,
                   mrk_file_count, loop_count, globals, P1_pos, outState,
                   setup, stdout>>

\* mica_timestamp = temp_timestamp - timedelta(seconds=MICA_deltat)
mica_timestamp(file) == file.time - MICA_deltat

\* lines 351-352: the count is printed every 100 images
Progress(cnt) ==
    IF cnt % 100 = 0 THEN Append(stdout, Line("", <<cnt>>)) ELSE stdout

\* The tags of the images read here are complete, so every value read in an
\* iteration was assigned in it and exif_loc is not followed.
ReadImage ==
    /\ pc = "exif"
    /\ file_i < Len(filelist)
    /\ filelist[file_i + 1].tags
    /\ LET file == filelist[file_i + 1]
           EN == transformer_transform(file.lat, file.lon)
       IN  /\ mica_events' = Append(mica_events, mica_timestamp(file))
           /\ mica_pos' = Append(mica_pos, <<EN[1], EN[2], file.alt>>)
    /\ stdout' = Progress(mica_count)
    /\ mica_count' = mica_count + 1
    /\ file_i' = file_i + 1
    /\ UNCHANGED <<inputs, pc, exception, mrk_file_count, loop_count,
                   globals, P1_pos, outState, setup>>

(***************************************************************************)
(* The EXIF loop on the tags as exifread returns them (lines 292-354).     *)
(*                                                                         *)
(* A raw image carries the set of tags present in it and their values.     *)
(* EXIF SubSecTime is the text the sensor reports: an optional "-" and a   *)
(* string of decimal digits, [neg, digits].  Timestamps of the raw images  *)
(* are rationals in milliseconds.                                          *)
(***************************************************************************)
TimeTags == {"EXIF DateTimeOriginal", "EXIF SubSecTime"}
PositionTags ==
    {"GPS GPSLatitude", "GPS GPSLatitudeRef", "GPS GPSLongitude",
     "GPS GPSLongitudeRef", "GPS GPSAltitude"}
RequiredTags == TimeTags \cup PositionTags

RawImage(k, present, T0, subsec) ==
    [name |-> k, tags |-> TRUE, present |-> present,
     DateTimeOriginal |-> T0, SubSecTime |-> subsec,
     lat |-> 10 + k, lat_ref |-> "N",
     lon |-> 20 + k, lon_ref |-> "E", alt |-> 500 + k]

\* Rationals: a + b, a < b
QAdd(a, b) == Norm(a[1] * b[2] + b[1] * a[2], a[2] * b[2])
QLess(a, b) == a[1] * b[2] < b[1] * a[2]

\* The number a string of decimal digits denotes.
RECURSIVE DigitsValue(_)
DigitsValue(digits) ==
    IF digits = <<>>
        THEN 0
        ELSE 10 * DigitsValue(SubSeq(digits, 1, Len(digits) - 1))
                + digits[Len(digits)]

\* int(mica_subsec_time), line 310
IntOfText(text) == (IF text.neg THEN -1 ELSE 1) * DigitsValue(text.digits)

\* The number of characters of '{}'.format(n) for an integer n >= 0.
RECURSIVE FormatLen(_)
FormatLen(n) == IF n < 10 THEN 1 ELSE 1 + FormatLen(n \div 10)

RECURSIVE Pow10(_)
Pow10(k) == IF k = 0 THEN 1 ELSE 10 * Pow10(k - 1)

\* Lines 310-318 with the sign of line 317 left out.
millisecUnsigned(mica_subsec_time) ==
    LET subsec == Abs(IntOfText(mica_subsec_time))
    IN  Norm(subsec * 1000, Pow10(FormatLen(subsec)))

\* lines 310-318: millisec of the tag's text
millisec(mica_subsec_time) ==
    LET subsec0 == IntOfText(mica_subsec_time)
        negative == IF subsec0 < 0 THEN -1 ELSE 1
        subsec == IF subsec0 < 0 THEN subsec0 * (-1) ELSE subsec0
    IN  Norm(negative * subsec * 1000, Pow10(FormatLen(subsec)))

\* Lines 302-354 for one image with tags, statement group by statement
\* group.  The outcome is a record: the exception raised ("none" while none
\* is), whether line 324 was reached, the values of the locals and the
\* position line 348 appends.  A group does nothing once an exception is
\* raised.
Outcome(exc, appended, locals) ==
    [exception |-> exc, appended |-> appended, locals |-> locals,
     pos |-> <<0, 0, 0>>]

\* lines 302-324: int("None") at line 310 and strptime("None") at line 320
\* raise ValueError
TimeGroup(file, old) ==
    IF "EXIF SubSecTime" \notin file.present
        THEN Outcome("ValueError", FALSE, old)
    ELSE IF "EXIF DateTimeOriginal" \notin file.present
        THEN Outcome("ValueError", FALSE,
                     [old EXCEPT !.millisec = millisec(file.SubSecTime)])
    ELSE Outcome("none", TRUE,
                 [old EXCEPT
                     !.millisec = millisec(file.SubSecTime),
                     !.temp_timestamp =
                         QAdd(Q(1000 * file.DateTimeOriginal),
                              millisec(file.SubSecTime))])

\* lines 334-337: None has no attribute values
LatitudeGroup(file, r) ==
    LET l == r.locals
        lat1 == IF "GPS GPSLatitude" \in file.present
                    THEN [l EXCEPT !.lat_bound = TRUE, !.lat_value = file.lat]
                    ELSE l
    IN  IF r.exception # "none"
            THEN r
        ELSE IF "GPS GPSLatitudeRef" \notin file.present
            THEN Outcome("AttributeError", TRUE, lat1)
        ELSE IF file.lat_ref = "N"
            THEN Outcome("none", TRUE, lat1)
        ELSE IF ~lat1.lat_bound
            THEN Outcome("UnboundLocalError", TRUE, lat1)
        ELSE Outcome("none", TRUE,
                     [lat1 EXCEPT !.lat_value = -lat1.lat_value])

\* lines 338-341
LongitudeGroup(file, r) ==
    LET l == r.locals
        lon1 == IF "GPS GPSLongitude" \in file.present
                    THEN [l EXCEPT !.lon_bound = TRUE, !.lon_value = file.lon]
                    ELSE l
    IN  IF r.exception # "none"
            THEN r
        ELSE IF "GPS GPSLongitudeRef" \notin file.present
            THEN Outcome("AttributeError", TRUE, lon1)
        ELSE IF file.lon_ref = "E"
            THEN Outcome("none", TRUE, lon1)
        ELSE IF ~lon1.lon_bound
            THEN Outcome("UnboundLocalError", TRUE, lon1)
        ELSE Outcome("none", TRUE,
                     [lon1 EXCEPT !.lon_value = -lon1.lon_value])

\* lines 342-343
AltitudeGroup(file, r) ==
    IF r.exception = "none" /\ "GPS GPSAltitude" \in file.present
        THEN [r EXCEPT !.locals.alt_bound = TRUE,
                       !.locals.alt_value = file.alt]
        ELSE r

\* lines 347-348: an unbound lat_value, lon_value or alt_value raises
\* UnboundLocalError
PositionGroup(r) ==
    IF r.exception # "none"
        THEN r
    ELSE IF ~r.locals.lat_bound \/ ~r.locals.lon_bound \/ ~r.locals.alt_bound
        THEN [r EXCEPT !.exception = "UnboundLocalError"]
    ELSE [r EXCEPT !.pos =
             <<transformer_transform(r.locals.lat_value, r.locals.lon_value)[1],
               transformer_transform(r.locals.lat_value, r.locals.lon_value)[2],
               r.locals.alt_value>>]

ReadTags(file, old) ==
    PositionGroup(
        AltitudeGroup(file,
            LongitudeGroup(file,
                LatitudeGroup(file, TimeGroup(file, old)))))

\* A negative SubSecTime is printed at line 313.
PrintNegative(file) ==
    IF "EXIF SubSecTime" \in file.present /\ IntOfText(file.SubSecTime) < 0
        THEN Append(stdout, Line("", <<IntOfText(file.SubSecTime)>>))
        ELSE stdout

ReadImageTags ==
    /\ pc = "exif"
    /\ file_i < Len(filelist)
    /\ filelist[file_i + 1].tags
    /\ LET file == filelist[file_i + 1]
           r == ReadTags(file, exif_loc)
           printed == PrintNegative(file)
       IN  /\ exif_loc' = r.locals
           /\ exception' = r.exception
           /\ mica_events' =
                 IF r.appended
                     THEN Append(mica_events,
                                 QAdd(r.locals.temp_timestamp,
                                      Q(-1000 * MICA_deltat)))
                     ELSE mica_events
           /\ IF r.exception = "none"
                 THEN /\ mica_pos' = Append(mica_pos, r.pos)
                      /\ stdout' =
                            IF mica_count % 100 = 0
                                THEN Append(printed, Line("", <<mica_count>>))
                                ELSE printed
                      /\ mica_count' = mica_count + 1
                      /\ file_i' = file_i + 1
                      /\ UNCHANGED pc
                 ELSE /\ pc' = "error"
                      /\ stdout' = printed
                      /\ UNCHANGED <<mica_pos, mica_count, file_i>>
    /\ UNCHANGED <<inputs, mrk_file_count, loop_count, globals, P1_pos,
                   outState, transformer>>

(***************************************************************************)
(* The list of MRK files (lines 357-364): the files the glob finds under   *)
(* mrk_folder, one of found.                                               *)
(***************************************************************************)
ListMrkFilesFrom(found) ==
    /\ pc = "exif"
    /\ file_i = Len(filelist)
    /\ mrk_file_list' \in found
    /\ mrk_file_count' = Len(mrk_file_list')
    /\ loop_count' = 1
    /\ pc' = "mrk"
    /\ UNCHANGED <<filelist, epsg_crs, utcoffset, exception, exifState,
                   globals, P1_pos, outState, setup, stdout>>

ListMrkFiles == ListMrkFilesFrom(Missions)

(***************************************************************************)
(* get_P1_position(MRK_file, file_count) (lines 191-226), called once per  *)
(* MRK file by the loop of lines 365-368.                                  *)
(*                                                                         *)
(* A line that does not parse is a record [bad, epoch_secs]:               *)
(*   "empty"     no field at all (a blank line): m[1] raises IndexError    *)
(*   "nan_time"  the seconds or the week is no number: ValueError          *)
(*   "short"     the time fields are there, the fields 6..8 are not:       *)
(*               IndexError at m[6]                                        *)
(*   "nan_pos"   a position field is no number: ValueError                 *)
(***************************************************************************)
WellFormed(line) == "bad" \notin DOMAIN line

\* get_P1_timestamp returns for a line whose two time fields parse.
TimeParses(line) == WellFormed(line) \/ line.bad \in {"short", "nan_pos"}

\* The exception a line raises.
ParseError(line) ==
    IF line.bad \in {"empty", "short"} THEN "IndexError" ELSE "ValueError"

\* The lines the loop of lines 212-226 appends before one fails.
RECURSIVE LeadingWellFormed(_)
LeadingWellFormed(mrks) ==
    IF mrks = <<>> \/ ~WellFormed(Head(mrks))
        THEN 0
        ELSE 1 + LeadingWellFormed(Tail(mrks))

get_P1_position(MRK_file, file_count) ==
    LET mrks == MRK_file
        n == LeadingWellFormed(mrks)
    IN  IF Len(mrks) = 0
            THEN /\ exception' = "IndexError"
                 /\ UNCHANGED globals
        ELSE IF ~TimeParses(At(mrks, 0))
            THEN /\ exception' = ParseError(At(mrks, 0))
                 /\ UNCHANGED globals
        ELSE IF ~TimeParses(At(mrks, -1))
            THEN /\ exception' = ParseError(At(mrks, -1))
                 /\ P1_first_timestamp' =
                       DictPut(P1_first_timestamp, file_count,
                               get_P1_timestamp(At(mrks, 0)))
                 /\ UNCHANGED <<P1_last_timestamp, P1_events, P1_pos_mrk>>
        ELSE /\ P1_first_timestamp' =
                   DictPut(P1_first_timestamp, file_count,
                           get_P1_timestamp(At(mrks, 0)))
             /\ P1_last_timestamp' =
                   DictPut(P1_last_timestamp, file_count,
                           get_P1_timestamp(At(mrks, -1)))
             /\ P1_events' =
                   P1_events \o [i \in 1..n |-> get_P1_timestamp(mrks[i])]
             /\ P1_pos_mrk' =
                   P1_pos_mrk \o [i \in 1..n |->
                                     <<mrks[i].lat, mrks[i].lon, mrks[i].ellh>>]
             /\ exception' =
                   IF n < Len(mrks) THEN ParseError(mrks[n + 1]) ELSE "none"

ReadMrkFile ==
    /\ pc = "mrk"
    /\ loop_count <= Len(mrk_file_list)
    /\ stdout' = Append(stdout, Line("Get P1 position", <<>>))
    /\ get_P1_position(mrk_file_list[loop_count], loop_count)
    /\ pc' = IF exception' = "none" THEN pc ELSE "error"
    /\ loop_count' = IF exception' = "none" THEN loop_count + 1 ELSE loop_count
    /\ UNCHANGED <<inputs, exifState, mrk_file_count, P1_pos, outState, setup>>

(***************************************************************************)
(* Shift and transformation of the P1 positions (lines 377-403).           *)
(***************************************************************************)
\* The shift vector applied as a scale: P1_pos_arr * P1_shift_vec.
ShiftedScaled(pos, shift_vec) ==
    <<pos[1] * shift_vec[1], pos[2] * shift_vec[2], pos[3] * shift_vec[3]>>

\* line 378, one row: P1_pos_arr + P1_shift_vec
Shifted(pos, shift_vec) ==
    <<pos[1] + shift_vec[1], pos[2] + shift_vec[2], pos[3] + shift_vec[3]>>

TransformedPosition(pos) ==
    LET shifted == Shifted(pos, P1_shift_vec)
        lat == shifted[1]
        lon == shifted[2]
        alt == shifted[3]
        result == transform_coordinates(lon, lat, alt)
    IN  <<result.easting, result.northing, result.altitude>>

\* numpy cannot add the shift vector to the empty array that np.array makes
\* of an empty P1_pos_mrk: ValueError at line 378.
TransformP1 ==
    /\ pc = "mrk"
    /\ loop_count > Len(mrk_file_list)
    /\ IF P1_pos_mrk = <<>>
          THEN /\ pc' = "error"
               /\ exception' = "ValueError"
               /\ UNCHANGED <<P1_pos, stdout>>
          ELSE /\ P1_pos' = [i \in 1..Len(P1_pos_mrk) |->
                                TransformedPosition(P1_pos_mrk[i])]
               /\ stdout' = stdout \o [i \in 1..Len(P1_pos_mrk) |->
                                          Line("API response:", P1_pos'[i])]
               /\ pc' = "open"
               /\ UNCHANGED exception
    /\ UNCHANGED <<inputs, exifState, mrk_file_count, loop_count, globals,
                   outState, setup>>

(***************************************************************************)
(* The transformation of the P1 positions request by request (lines        *)
(* 59-86 and 377-403).  transform_coordinates calls requests.get without a *)
(* timeout and returns when the service has answered:                      *)
(*   "ok"          a complete answer;                                      *)
(*   "incomplete"  an answer without the key "easting", which              *)
(*                 result.get("easting", 0.0) fills with 0.0;              *)
(*   "error"       a failed request, an error status or a body that is no  *)
(*                 JSON: the exception is caught, None is returned and     *)
(*                 line 403 appends [None, None, None].                    *)
(* pc = "wait" while requests.get has not returned.                        *)
(***************************************************************************)
Answers == {"ok", "incomplete", "error"}

\* lines 385-403 for one position and an answer of the service
AnsweredPosition(answer, pos) ==
    LET shifted == Shifted(pos, P1_shift_vec)
        full == transform_coordinates(shifted[2], shifted[1], shifted[3])
    IN  IF answer = "error"
            THEN NoPosition
        ELSE IF answer = "incomplete"
            THEN <<0, full.northing, full.altitude>>
        ELSE <<full.easting, full.northing, full.altitude>>

\* what lines 76 and 85, 400 and 402 print for the answer
AnswerLines(answer, position) ==
    IF answer = "error"
        THEN <<Line("Error in transform_coordinates", <<>>),
               Line("Transformation failed for coordinates", <<>>)>>
        ELSE <<Line("API response:", position)>>

\* lines 377-382 and the first call of requests.get
RequestTransform ==
    /\ pc = "mrk"
    /\ loop_count > Len(mrk_file_list)
    /\ IF P1_pos_mrk = <<>>
          THEN /\ pc' = "error"
               /\ exception' = "ValueError"
          ELSE /\ pc' = "wait"
               /\ UNCHANGED exception
    /\ UNCHANGED <<inputs, exifState, mrk_file_count, loop_count, globals,
                   P1_pos, outState, setup, stdout>>

\* requests.get returns: the position is appended and the loop goes on to
\* the next call of requests.get, or ends.
ServiceAnswer ==
    /\ pc = "wait"
    /\ \E answer \in Answers :
          LET position ==
                  AnsweredPosition(answer, P1_pos_mrk[Len(P1_pos) + 1])
          IN  /\ P1_pos' = Append(P1_pos, position)
              /\ stdout' = stdout \o AnswerLines(answer, position)
    /\ pc' = IF Len(P1_pos') = Len(P1_pos_mrk) THEN "open" ELSE "wait"
    /\ UNCHANGED <<inputs, exception, exifState, mrk_file_count, loop_count,
                   globals, outState, setup>>

(***************************************************************************)
(* Creation of the output file and the mission's time range (lines         *)
(* 407-415).  The file exists with its header row when a missing key of    *)
(* P1_first_timestamp or P1_last_timestamp raises KeyError.                *)
(***************************************************************************)
OpenOutput ==
    /\ pc = "open"
    /\ out_frame' = [state |-> "open", header |-> TRUE, rows |-> <<>>]
    /\ count' = 0
    /\ IF 1 \in DOMAIN P1_first_timestamp
          /\ mrk_file_count \in DOMAIN P1_last_timestamp
          THEN /\ first_P1_timestamp' = P1_first_timestamp[1]
               /\ last_P1_timestamp' = P1_last_timestamp[mrk_file_count]
               /\ pc' = "loop"
               /\ UNCHANGED exception
          ELSE /\ first_P1_timestamp' =
                     IF 1 \in DOMAIN P1_first_timestamp
                         THEN P1_first_timestamp[1]
                         ELSE first_P1_timestamp
               /\ pc' = "error"
               /\ exception' = "KeyError"
               /\ UNCHANGED last_P1_timestamp
    /\ UNCHANGED <<inputs, exifState, mrk_file_count, loop_count, globals,
                   P1_pos, loc, setup, stdout>>

(***************************************************************************)
(* The interpolation loop (lines 417-497): one iteration per entry of      *)
(* mica_events.                                                            *)
(***************************************************************************)
\* lines 424-425: captured before P1 started or after it stopped
OutsideMission(camera_time_sec) ==
    \/ camera_time_sec < first_P1_timestamp
    \/ camera_time_sec > last_P1_timestamp

\* lines 433-436: captured between two flights of the same mission
BetweenFlights(camera_time_sec) ==
    /\ mrk_file_count > 1
    /\ \E mrk_loop \in 1..(mrk_file_count - 1) :
          /\ camera_time_sec > P1_last_timestamp[mrk_loop]
          /\ camera_time_sec < P1_first_timestamp[mrk_loop + 1]

\* the value of P1_triggered at line 444
Triggered(camera_time_sec) ==
    /\ ~OutsideMission(camera_time_sec)
    /\ ~BetweenFlights(camera_time_sec)

\* lines 445-454: index of the left fix of the bracket; the right one follows it
BracketLeft(a, P1_pos_time, camera_time_sec) ==
    IF P1_pos_time <= camera_time_sec THEN a ELSE a - 1

\* The division of line 460 without the test of line 459.
TimeDeltaUnguarded(camera_time_sec, time1, time2) ==
    Div(camera_time_sec - time1, time2 - time1)

\* lines 457-460
TimeDelta(camera_time_sec, time1, time2) ==
    IF (time2 - time1) # 0
        THEN Div(camera_time_sec - time1, time2 - time1)
        ELSE Q(0)

\* lines 463-467: p1 + time_delta * (p2 - p1), one component
Interp(p1, p2, time_delta) ==
    Norm(p1 * time_delta[2] + time_delta[1] * (p2 - p1), time_delta[2])

\* lines 487-494: the record written for an image
Record(image_name, upd_micasense_pos, raw_pos) ==
    IF upd_micasense_pos[3] # Q(0)
        THEN <<image_name, upd_micasense_pos[1], upd_micasense_pos[2],
               upd_micasense_pos[3]>>
        ELSE <<image_name, Q(raw_pos[1]), Q(raw_pos[2]), upd_micasense_pos[3]>>

\* line 481: the image the row is labelled with
ImageName(cnt) == At(filelist, cnt).name

\* line 484: the entry of mica_pos the raw position is taken from
PosIndex(m_cam_time) == ListIndex(mica_events, m_cam_time)

\* lines 447 and 449: P1_events[a + 1] is read when the nearest fix is not
\* later than the capture; it does not exist when a is the last fix.
\* line 463: a fix of the bracket whose position is [None, None, None]
\* raises TypeError at the subtraction.
Interpolate ==
    /\ pc = "loop"
    /\ count < Len(mica_events)
    /\ LET m_cam_time == mica_events[count + 1]
           a == find_nearest(P1_events, m_cam_time)
           P1_pos_time == At(P1_events, a)
           P1_triggered == Triggered(m_cam_time)
           left == BracketLeft(a, P1_pos_time, m_cam_time)
           time1 == IF P1_triggered THEN At(P1_events, left) ELSE 0
           time2 == IF P1_triggered THEN At(P1_events, left + 1) ELSE 0
           upd_pos1 == IF P1_triggered THEN At(P1_pos, left) ELSE <<0, 0, 0>>
           upd_pos2 == IF P1_triggered THEN At(P1_pos, left + 1) ELSE <<0, 0, 0>>
           time_delta == TimeDelta(m_cam_time, time1, time2)
           upd_micasense_pos ==
               [c \in 1..3 |-> Interp(upd_pos1[c], upd_pos2[c], time_delta)]
           image_name == ImageName(count)
           pos_index == PosIndex(m_cam_time)
           rec == Record(image_name, upd_micasense_pos, At(mica_pos, pos_index))
       IN  /\ P1_triggered => InRange(P1_events, left + 1)
           /\ IF time_delta = DivByZero
                 THEN /\ pc' = "error"
                      /\ exception' = "ZeroDivisionError"
                      /\ loc' = [loc EXCEPT !.m_cam_time = m_cam_time,
                                            !.P1_triggered = P1_triggered,
                                            !.a = a,
                                            !.P1_pos_time = P1_pos_time,
                                            !.time1 = time1, !.time2 = time2,
                                            !.upd_pos1 = upd_pos1,
                                            !.upd_pos2 = upd_pos2]
                      /\ UNCHANGED <<out_frame, count>>
              ELSE IF upd_pos1 = NoPosition \/ upd_pos2 = NoPosition
                 THEN /\ pc' = "error"
                      /\ exception' = "TypeError"
                      /\ loc' = [loc EXCEPT !.m_cam_time = m_cam_time,
                                            !.P1_triggered = P1_triggered,
                                            !.a = a,
                                            !.P1_pos_time = P1_pos_time,
                                            !.time1 = time1, !.time2 = time2,
                                            !.upd_pos1 = upd_pos1,
                                            !.upd_pos2 = upd_pos2,
                                            !.time_delta = time_delta]
                      /\ UNCHANGED <<out_frame, count>>
                 ELSE /\ loc' = [m_cam_time |-> m_cam_time,
                                 P1_triggered |-> P1_triggered,
                                 a |-> a, P1_pos_time |-> P1_pos_time,
                                 time1 |-> time1, time2 |-> time2,
                                 upd_pos1 |-> upd_pos1, upd_pos2 |-> upd_pos2,
                                 time_delta |-> time_delta,
                                 upd_micasense_pos |-> upd_micasense_pos,
                                 image_name |-> image_name,
                                 pos_index |-> pos_index]
                      /\ out_frame' =
                            [out_frame EXCEPT !.rows = Append(@, rec)]
                      /\ count' = count + 1
                      /\ UNCHANGED <<pc, exception>>
    /\ UNCHANGED <<inputs, exifState, mrk_file_count, loop_count, globals,
                   P1_pos, first_P1_timestamp, last_P1_timestamp, setup,
                   stdout>>

\* IndexError at line 447: time1 is assigned, nothing is written, the file
\* stays open with the rows written so far.
InterpolateIndexError ==
    /\ pc = "loop"
    /\ count < Len(mica_events)
    /\ LET m_cam_time == mica_events[count + 1]
           a == find_nearest(P1_events, m_cam_time)
           P1_pos_time == At(P1_events, a)
           left == BracketLeft(a, P1_pos_time, m_cam_time)
       IN  /\ Triggered(m_cam_time)
           /\ ~InRange(P1_events, left + 1)
           /\ loc' = [loc EXCEPT !.m_cam_time = m_cam_time,
                                 !.P1_triggered = TRUE,
                                 !.a = a,
                                 !.P1_pos_time = P1_pos_time,
                                 !.time1 = P1_pos_time]
    /\ pc' = "error"
    /\ exception' = "IndexError"
    /\ UNCHANGED <<inputs, exifState, mrk_file_count, loop_count, globals,
                   P1_pos, first_P1_timestamp, last_P1_timestamp, out_frame,
                   count, setup, stdout>>

\* line 500
CloseOutput ==
    /\ pc = "loop"
    /\ count = Len(mica_events)
    /\ out_frame' = [out_frame EXCEPT !.state = "closed"]
    /\ pc' = "done"
    /\ UNCHANGED <<inputs, exception, exifState, mrk_file_count, loop_count,
                   globals, P1_pos, first_P1_timestamp, last_P1_timestamp,
                   count, loc, setup, stdout>>

Next ==
    \/ ResolveCRS
    \/ ReadImageSkip
    \/ ReadImage
    \/ ListMrkFiles
    \/ ReadMrkFile
    \/ TransformP1
    \/ OpenOutput
    \/ Interpolate
    \/ InterpolateIndexError
    \/ CloseOutput

Spec == Init /\ [][Next]_vars

(***************************************************************************)
(* The EXIF loop alone, on raw tags.                                       *)
(*   SpecSubSec: one image with every required tag, any DateTimeOriginal   *)
(*   and any SubSecTime text of up to MaxDigits digits (or one image       *)
(*   without tags).                                                        *)
(*   SpecTags: up to MaxImages images, each without tags, complete, or     *)
(*   lacking one required tag, every time tag or every position tag.       *)
(***************************************************************************)
Digits == 0..9
DigitStrings == UNION {[1..n -> Digits] : n \in 1..MaxDigits}
SubSecTexts == [neg : BOOLEAN, digits : DigitStrings]

SubSecFileLists ==
    {<<RawImage(1, RequiredTags, T0, text)>> :
        T0 \in Times, text \in SubSecTexts}
    \cup {<<Image(1, FALSE, 0)>>}

Presences ==
    {RequiredTags}
    \cup {RequiredTags \ {t} : t \in RequiredTags}
    \cup {RequiredTags \ TimeTags, RequiredTags \ PositionTags}

\* Image k of a list: without tags, or taken at second k with SubSecTime "0"
\* and the tags of present.
TaggedImage(k, present) ==
    IF present = {}
        THEN Image(k, FALSE, 0)
        ELSE RawImage(k, present, k, [neg |-> FALSE, digits |-> <<0>>])

TagFileLists ==
    {[k \in DOMAIN c |-> TaggedImage(k, c[k])] :
        c \in SeqUpTo(Presences \cup {{}}, MaxImages)}

InitSubSec ==
    /\ filelist \in SubSecFileLists
    /\ epsg_crs = "2056"
    /\ utcoffset = 0
    /\ Entry
    /\ FreshGlobals

InitTags ==
    /\ filelist \in TagFileLists
    /\ epsg_crs = "2056"
    /\ utcoffset = 0
    /\ Entry
    /\ FreshGlobals

NextExif ==
    \/ ResolveCRS
    \/ ReadImageSkip
    \/ ReadImageTags

SpecSubSec == InitSubSec /\ [][NextExif]_vars
SpecTags == InitTags /\ [][NextExif]_vars

(***************************************************************************)
(* SpecResolve and SpecCRS: the run of Spec for other target CRS           *)
(* identifiers.  The callers other than InterpolateCameraPositions pass    *)
(* the identifier the user gives on the command line: a code the PROJ      *)
(* database does not know, a text that is no number (SpecResolve), the     *)
(* code of another projected CRS (SpecCRS).                                *)
(***************************************************************************)
InitResolve ==
    /\ filelist \in FileLists
    /\ epsg_crs \in {"2056", "99999", "lv95"}
    /\ utcoffset = 0
    /\ Entry
    /\ FreshGlobals

InitCRS ==
    /\ filelist \in FileLists
    /\ epsg_crs \in KnownCRS
    /\ utcoffset = 0
    /\ Entry
    /\ FreshGlobals

SpecResolve == InitResolve /\ [][Next]_vars
SpecCRS == InitCRS /\ [][Next]_vars

\* SpecSelect: the runs of SpecCRS up to the end of the EXIF loop, the part
\* of the run that selects the transformer and uses it.
NextSelect ==
    \/ ResolveCRS
    \/ ReadImageSkip
    \/ ReadImage

SpecSelect == InitCRS /\ [][NextSelect]_vars

(***************************************************************************)
(* SpecMrk: the run of Spec on MRK files as they are on disk: the files of *)
(* a mission, or those files with one line that does not parse put in      *)
(* before any line or after the last line of one of them.                  *)
(***************************************************************************)
BadKinds == {"empty", "nan_time", "short", "nan_pos"}

\* A line of kind kind put in before line i of file (after the last line
\* when i = Len(file) + 1), carrying the time of its neighbour.
InsertLine(file, i, kind) ==
    LET t == IF i <= Len(file) THEN file[i].epoch_secs
                               ELSE file[Len(file)].epoch_secs
    IN  SubSeq(file, 1, i - 1) \o <<[bad |-> kind, epoch_secs |-> t]>>
            \o SubSeq(file, i, Len(file))

DamagedMissions ==
    UNION {UNION {{[m EXCEPT ![j] = InsertLine(m[j], i, kind)] :
                      i \in 1..(Len(m[j]) + 1), kind \in BadKinds} :
                  j \in DOMAIN m} :
           m \in Missions}

ListRawMrkFiles == ListMrkFilesFrom(Missions \cup DamagedMissions)

NextMrk ==
    \/ ResolveCRS
    \/ ReadImageSkip
    \/ ReadImage
    \/ ListRawMrkFiles
    \/ ReadMrkFile
    \/ TransformP1
    \/ OpenOutput
    \/ Interpolate
    \/ InterpolateIndexError
    \/ CloseOutput

SpecMrk == Init /\ [][NextMrk]_vars

\* The runs of Spec with one image, which has tags.
OneImageLists == {fl \in FileLists : Len(fl) = 1 /\ fl[1].tags}

InitOneImage ==
    /\ filelist \in OneImageLists
    /\ epsg_crs = "2056"
    /\ utcoffset = 0
    /\ Entry
    /\ FreshGlobals

(***************************************************************************)
(* SpecReinvoke: an invocation of ret_micasense_pos that may follow an     *)
(* earlier invocation in the same process (process_metashape calls it once *)
(* per row of its CSV), and whose mrk_folder may hold no MRK file or an    *)
(* empty one.  What an earlier invocation leaves behind is the module      *)
(* globals, which no invocation resets.                                    *)
(***************************************************************************)
RECURSIVE Flatten(_)
Flatten(files) ==
    IF files = <<>> THEN <<>> ELSE Head(files) \o Flatten(Tail(files))

\* The module globals after an invocation that read mission in a fresh
\* process.
GlobalsAfter(mission) ==
    /\ P1_events =
          [i \in 1..Len(Flatten(mission)) |->
              get_P1_timestamp(Flatten(mission)[i])]
    /\ P1_pos_mrk =
          [i \in 1..Len(Flatten(mission)) |->
              <<Flatten(mission)[i].lat, Flatten(mission)[i].lon,
                Flatten(mission)[i].ellh>>]
    /\ P1_first_timestamp =
          [k \in 1..Len(mission) |-> get_P1_timestamp(At(mission[k], 0))]
    /\ P1_last_timestamp =
          [k \in 1..Len(mission) |-> get_P1_timestamp(At(mission[k], -1))]

\* No earlier invocation, or one that read a mission.
InitReinvoke ==
    /\ filelist \in FileLists
    /\ epsg_crs = "2056"
    /\ utcoffset = 0
    /\ Entry
    /\ \E earlier \in Missions \cup {<<>>} : GlobalsAfter(earlier)

\* No MRK file under mrk_folder, or one without a line.
NoFixLogs == {<<>>, << <<>> >>}

ListAnyMrkFiles == ListMrkFilesFrom(Missions \cup NoFixLogs)

NextReinvoke ==
    \/ ResolveCRS
    \/ ReadImageSkip
    \/ ReadImage
    \/ ListAnyMrkFiles
    \/ ReadMrkFile
    \/ TransformP1
    \/ OpenOutput
    \/ Interpolate
    \/ InterpolateIndexError
    \/ CloseOutput

SpecReinvoke == InitReinvoke /\ [][NextReinvoke]_vars

(***************************************************************************)
(* SpecDiscovery: the run of Spec with the MRK files of the mission in any *)
(* order: glob.iglob yields the files in the order the directory lists     *)
(* them, and lines 357-368 read them in that order.  The runs are those   *)
(* with one image, which has tags.                                         *)
(***************************************************************************)
Orderings(mission) ==
    {[k \in DOMAIN mission |-> mission[p[k]]] :
        p \in Permutations(DOMAIN mission)}

DiscoveredMissions == UNION {Orderings(mission) : mission \in Missions}

ListDiscoveredMrkFiles == ListMrkFilesFrom(DiscoveredMissions)

NextDiscovery ==
    \/ ResolveCRS
    \/ ReadImage
    \/ ListDiscoveredMrkFiles
    \/ ReadMrkFile
    \/ TransformP1
    \/ OpenOutput
    \/ Interpolate
    \/ InterpolateIndexError
    \/ CloseOutput

SpecDiscovery == InitOneImage /\ [][NextDiscovery]_vars

(***************************************************************************)
(* SpecService: the run of Spec with the service answering each request in *)
(* any of the three ways.  SpecServiceLive is that run for one image with  *)
(* the fairness the program has: a statement that can run does run.  The   *)
(* answer of the service is no step of the program, and the call has no    *)
(* timeout: nothing makes ServiceAnswer happen.                            *)
(***************************************************************************)
NextService ==
    \/ ResolveCRS
    \/ ReadImageSkip
    \/ ReadImage
    \/ ListMrkFiles
    \/ ReadMrkFile
    \/ RequestTransform
    \/ ServiceAnswer
    \/ OpenOutput
    \/ Interpolate
    \/ InterpolateIndexError
    \/ CloseOutput

ProgramStep ==
    \/ ResolveCRS
    \/ ReadImageSkip
    \/ ReadImage
    \/ ListMrkFiles
    \/ ReadMrkFile
    \/ RequestTransform
    \/ OpenOutput
    \/ Interpolate
    \/ InterpolateIndexError
    \/ CloseOutput

SpecService == Init /\ [][NextService]_vars

InitServiceLive ==
    /\ filelist \in {fl \in FileLists : Len(fl) = 1}
    /\ epsg_crs = "2056"
    /\ utcoffset = 0
    /\ Entry
    /\ FreshGlobals

SpecServiceLive ==
    InitServiceLive /\ [][NextService]_vars /\ WF_vars(ProgramStep)

(***************************************************************************)
(* SpecBatch: process_metashape (src/InterpolateCameraPositions.py, lines  *)
(* 34-94) run again over the same CSV after a run has ended.  An exception *)
(* of ret_micasense_pos is not caught by process_metashape and ends the    *)
(* process; the output file, created at line 407, stays on disk with what  *)
(* was written to it.  The next run starts a new process: it skips the     *)
(* project when the file exists (lines 56-58) and calls ret_micasense_pos  *)
(* otherwise.                                                              *)
(***************************************************************************)
process_metashape ==
    /\ pc \in {"done", "error"}
    /\ pc' = IF out_frame.state = "absent" THEN "crs" ELSE "skipped"
    /\ stdout' =
          IF out_frame.state = "absent"
              THEN <<>>
              ELSE <<Line("Skipping: Interpolated MicaSense positions already exist",
                          <<>>)>>
    /\ mrk_file_list' = <<>>
    /\ exception' = "none"
    /\ file_i' = 0
    /\ mica_events' = <<>>
    /\ mica_pos' = <<>>
    /\ mica_count' = 0
    /\ mrk_file_count' = 0
    /\ loop_count' = 1
    /\ P1_events' = <<>>
    /\ P1_pos_mrk' = <<>>
    /\ P1_first_timestamp' = <<>>
    /\ P1_last_timestamp' = <<>>
    /\ P1_pos' = <<>>
    /\ first_P1_timestamp' = 0
    /\ last_P1_timestamp' = 0
    /\ count' = 0
    /\ loc' = NoLocals
    /\ transformer' = NoTransformer
    /\ exif_loc' = NoTagValues
    /\ UNCHANGED <<filelist, epsg_crs, utcoffset, out_frame>>

NextBatch ==
    \/ ResolveCRS
    \/ ReadImageSkip
    \/ ReadImage
    \/ ListMrkFiles
    \/ ReadMrkFile
    \/ TransformP1
    \/ OpenOutput
    \/ Interpolate
    \/ InterpolateIndexError
    \/ CloseOutput
    \/ process_metashape

SpecBatch == Init /\ [][NextBatch]_vars

(***************************************************************************)
(* upd_micasense_pos_custom.py: the ret_micasense_pos that takes the       *)
(* capture times and raw positions from its caller, as called by           *)
(* ret_micasense_pos_with_progress of debug_script.py, which loads the     *)
(* images once and calls ret_micasense_pos repeatedly in one process with  *)
(* the same arguments (range(100), MaxCalls here).                         *)
(*                                                                         *)
(* Times.  A datetime without zone is the integer of its clock reading.    *)
(* datetime.timestamp() gives the seconds of the instant since the epoch,  *)
(* in UTC: a datetime without zone is read as local time of the machine,   *)
(* one localized to UTC as UTC.                                            *)
(***************************************************************************)
MaxCalls == 2
UtcOffsets == {-1, 0, 1}

\* debug_script.py line 11 and upd_micasense_pos_custom.py line 44
MICA_deltat_custom == 0

\* event.timestamp() of a datetime whose zone is offset ahead of UTC
timestamp(event, offset) == event - offset

\* The image lists of FileLists, the same instants reported by a camera
\* whose clock has the offset MICA_deltat_custom.
CustomFileLists ==
    {[k \in DOMAIN fl |->
         [fl[k] EXCEPT !.time = IF fl[k].tags
                                    THEN mica_timestamp(fl[k])
                                             + MICA_deltat_custom
                                    ELSE 0]] : fl \in FileLists}

\* lines 192 and 196: utc.localize(event) for each event of P1_events, then
\* event.timestamp().  P1_events is not assigned again in the invocation.
P1_events_epoch == [i \in 1..Len(P1_events) |-> timestamp(P1_events[i], 0)]

\* The locals of the interpolation loop of the custom variant.
NoLocalsCustom == NoLocals @@ [non_matching_images |-> <<>>]

\* The process starts: nothing is loaded.
InitCustom ==
    /\ filelist \in CustomFileLists
    /\ epsg_crs = "2056"
    /\ utcoffset \in UtcOffsets
    /\ mrk_file_list = <<>>
    /\ pc = "load"
    /\ exception = "none"
    /\ file_i = 0
    /\ mica_events = <<>>
    /\ mica_pos = <<>>
    /\ mica_count = 0
    /\ mrk_file_count = 0
    /\ loop_count = 1
    /\ P1_pos = <<>>
    /\ first_P1_timestamp = 0
    /\ last_P1_timestamp = 0
    /\ out_frame = [state |-> "absent", header |-> FALSE, rows |-> <<>>]
    /\ count = 0
    /\ loc = NoLocalsCustom
    /\ transformer = NoTransformer
    /\ exif_loc = NoTagValues
    /\ stdout = <<>>
    /\ FreshGlobals

\* debug_script.py lines 54-104: the images with tags give a capture time,
\* datetime without zone turned into a number by timestamp(), and a raw
\* position E, N = lat_value, lon_value.  mica_events holds the list
\* mica_events_epoch that is passed on.
ret_micasense_pos_with_progress ==
    /\ pc = "load"
    /\ LET tagged == SelectSeq(filelist, LAMBDA file : file.tags)
       IN  /\ mica_events' =
                 [k \in 1..Len(tagged) |->
                     timestamp(tagged[k].time - MICA_deltat_custom, utcoffset)]
           /\ mica_pos' =
                 [k \in 1..Len(tagged) |->
                     <<tagged[k].lat, tagged[k].lon, tagged[k].alt>>]
           /\ mica_count' = Len(tagged)
           /\ stdout' =
                 <<Line("Loading micasense images", <<>>)>>
                     \o (IF Len(tagged) > 0 THEN <<Line("", <<0>>)>> ELSE <<>>)
    /\ file_i' = Len(filelist)
    /\ pc' = "call"
    /\ UNCHANGED <<inputs, exception, mrk_file_count, loop_count, globals,
                   P1_pos, outState, setup>>

\* debug_script.py lines 107-108 call ret_micasense_pos with the same
\* arguments each time; upd_micasense_pos_custom.py lines 150-183: the
\* transformer, the MRK files of the folder and the reset of P1_events.
\* P1_pos_mrk, P1_first_timestamp and P1_last_timestamp are not reset.
\* Call k has ended with Len(P1_pos_mrk) = k * Len(P1_events).
ret_micasense_pos ==
    /\ \/ pc = "call"
       \/ pc = "done" /\ Len(P1_pos_mrk) < MaxCalls * Len(P1_events)
    /\ stdout' = stdout \o <<Line("Loading micasense images", <<>>),
                             Line("Initializing P1_events", <<>>)>>
    /\ transformer' = SelectTransformer(TransformerGroup(epsg_crs))
    /\ mrk_file_list' \in IF pc = "call" THEN Missions ELSE {mrk_file_list}
    /\ mrk_file_count' = Len(mrk_file_list')
    /\ loop_count' = 1
    /\ P1_events' = <<>>
    /\ P1_pos' = <<>>
    /\ first_P1_timestamp' = 0
    /\ last_P1_timestamp' = 0
    /\ count' = 0
    /\ loc' = NoLocalsCustom
    /\ pc' = "mrk"
    /\ UNCHANGED <<filelist, epsg_crs, utcoffset, exception, exifState,
                   P1_pos_mrk, P1_first_timestamp, P1_last_timestamp,
                   out_frame, exif_loc>>

\* lines 191-220: the mission's time range, read before the output file is
\* created, the shifted positions (the transformation is a placeholder:
\* E, N are the shifted latitude and longitude) and the output file with its
\* header row.
ShiftP1 ==
    /\ pc = "mrk"
    /\ loop_count > Len(mrk_file_list)
    /\ IF 1 \notin DOMAIN P1_first_timestamp
          THEN /\ pc' = "error"
               /\ exception' = "KeyError"
               /\ UNCHANGED <<first_P1_timestamp, last_P1_timestamp, P1_pos,
                              out_frame, count, stdout>>
          ELSE IF mrk_file_count \notin DOMAIN P1_last_timestamp
          THEN /\ pc' = "error"
               /\ exception' = "KeyError"
               /\ first_P1_timestamp' = P1_first_timestamp[1]
               /\ UNCHANGED <<last_P1_timestamp, P1_pos, out_frame, count,
                              stdout>>
          ELSE /\ first_P1_timestamp' = P1_first_timestamp[1]
               /\ last_P1_timestamp' = P1_last_timestamp[mrk_file_count]
               /\ stdout' =
                     stdout \o
                         <<Line("First P1 timestamp:", <<first_P1_timestamp'>>),
                           Line("Last P1 timestamp:", <<last_P1_timestamp'>>)>>
               /\ IF P1_pos_mrk = <<>>
                     THEN /\ pc' = "error"
                          /\ exception' = "ValueError"
                          /\ UNCHANGED <<P1_pos, out_frame, count>>
                     ELSE /\ P1_pos' = [i \in 1..Len(P1_pos_mrk) |->
                                           Shifted(P1_pos_mrk[i], P1_shift_vec)]
                          /\ out_frame' = [state |-> "open", header |-> TRUE,
                                           rows |-> <<>>]
                          /\ count' = 0
                          /\ pc' = "interpolate"
                          /\ UNCHANGED exception
    /\ UNCHANGED <<inputs, exifState, mrk_file_count, loop_count, globals,
                   loc, setup>>

\* lines 230-231: captured before P1 started or after it stopped
OutsideMissionCustom(camera_time_sec) ==
    \/ camera_time_sec < timestamp(first_P1_timestamp, utcoffset)
    \/ camera_time_sec > timestamp(last_P1_timestamp, utcoffset)

\* lines 240-249: captured between two flights of the same mission
BetweenFlightsCustom(camera_time_sec) ==
    /\ mrk_file_count > 1
    /\ \E mrk_loop \in 1..(mrk_file_count - 1) :
          /\ camera_time_sec
                 > timestamp(P1_last_timestamp[mrk_loop], utcoffset)
          /\ camera_time_sec
                 < timestamp(P1_first_timestamp[mrk_loop + 1], utcoffset)

\* the value of P1_triggered at line 252
TriggeredCustom(camera_time_sec) ==
    /\ ~OutsideMissionCustom(camera_time_sec)
    /\ ~BetweenFlightsCustom(camera_time_sec)

\* lines 223-289, one iteration: the nearest fix and the bracket are taken
\* from P1_events_epoch, the positions from P1_pos.
InterpolateCustom ==
    /\ pc = "interpolate"
    /\ count < Len(mica_events)
    /\ LET m_cam_time == mica_events[count + 1]
           a == find_nearest(P1_events_epoch, m_cam_time)
           P1_pos_time == At(P1_events_epoch, a)
           P1_triggered == TriggeredCustom(m_cam_time)
           left == BracketLeft(a, P1_pos_time, m_cam_time)
           time1 == IF P1_triggered THEN At(P1_events_epoch, left) ELSE 0
           time2 == IF P1_triggered THEN At(P1_events_epoch, left + 1) ELSE 0
           upd_pos1 == IF P1_triggered THEN At(P1_pos, left) ELSE <<0, 0, 0>>
           upd_pos2 == IF P1_triggered THEN At(P1_pos, left + 1) ELSE <<0, 0, 0>>
           time_delta == TimeDelta(m_cam_time, time1, time2)
           upd_micasense_pos ==
               [c \in 1..3 |-> Interp(upd_pos1[c], upd_pos2[c], time_delta)]
           image_name == ImageName(count)
           pos_index == PosIndex(m_cam_time)
           rec == Record(image_name, upd_micasense_pos, At(mica_pos, pos_index))
       IN  /\ P1_triggered => InRange(P1_events_epoch, left + 1)
           /\ loc' = [m_cam_time |-> m_cam_time,
                      P1_triggered |-> P1_triggered,
                      a |-> a, P1_pos_time |-> P1_pos_time,
                      time1 |-> time1, time2 |-> time2,
                      upd_pos1 |-> upd_pos1, upd_pos2 |-> upd_pos2,
                      time_delta |-> time_delta,
                      upd_micasense_pos |-> upd_micasense_pos,
                      image_name |-> image_name,
                      pos_index |-> pos_index,
                      non_matching_images |->
                          IF P1_triggered
                              THEN loc.non_matching_images
                              ELSE Append(loc.non_matching_images,
                                          <<image_name, m_cam_time>>)]
           /\ out_frame' = [out_frame EXCEPT !.rows = Append(@, rec)]
           /\ count' = count + 1
    /\ UNCHANGED <<inputs, pc, exception, exifState, mrk_file_count,
                   loop_count, globals, P1_pos, first_P1_timestamp,
                   last_P1_timestamp, setup, stdout>>

\* IndexError at line 255: P1_events_epoch[a + 1] does not exist.
InterpolateCustomIndexError ==
    /\ pc = "interpolate"
    /\ count < Len(mica_events)
    /\ LET m_cam_time == mica_events[count + 1]
           a == find_nearest(P1_events_epoch, m_cam_time)
           P1_pos_time == At(P1_events_epoch, a)
           left == BracketLeft(a, P1_pos_time, m_cam_time)
       IN  /\ TriggeredCustom(m_cam_time)
           /\ ~InRange(P1_events_epoch, left + 1)
           /\ loc' = [loc EXCEPT !.m_cam_time = m_cam_time,
                                 !.P1_triggered = TRUE,
                                 !.a = a,
                                 !.P1_pos_time = P1_pos_time,
                                 !.time1 = P1_pos_time]
    /\ pc' = "error"
    /\ exception' = "IndexError"
    /\ UNCHANGED <<inputs, exifState, mrk_file_count, loop_count, globals,
                   P1_pos, first_P1_timestamp, last_P1_timestamp, out_frame,
                   count, setup, stdout>>

\* lines 292-300: the file is closed and the images outside the P1 times
\* are listed.
CloseCustom ==
    /\ pc = "interpolate"
    /\ count = Len(mica_events)
    /\ out_frame' = [out_frame EXCEPT !.state = "closed"]
    /\ stdout' =
          IF loc.non_matching_images = <<>>
              THEN stdout
              ELSE stdout
                       \o <<Line("The following MicaSense images do not match the timeframe of P1 images:",
                                 <<>>)>>
                       \o [i \in 1..Len(loc.non_matching_images) |->
                              Line("", loc.non_matching_images[i])]
    /\ pc' = "done"
    /\ UNCHANGED <<inputs, exception, exifState, mrk_file_count, loop_count,
                   globals, P1_pos, first_P1_timestamp, last_P1_timestamp,
                   count, loc, setup>>

NextCustom ==
    \/ ret_micasense_pos_with_progress
    \/ ret_micasense_pos
    \/ ReadMrkFile
    \/ ShiftP1
    \/ InterpolateCustom
    \/ InterpolateCustomIndexError
    \/ CloseCustom

SpecCustom == InitCustom /\ [][NextCustom]_vars

(***************************************************************************)
(* Vocabulary of the properties.                                           *)
(*                                                                         *)
(* RowDone holds right after an iteration of the interpolation loop has    *)
(* written its row: the capture is entry count of mica_events (1-based),   *)
(* its row is the last row of the file and loc holds the values the        *)
(* iteration computed.  Attempted also covers an iteration that raised.    *)
(***************************************************************************)
RowDone == pc \in {"loop", "done"} /\ count >= 1
Attempted == RowDone \/ (pc = "error" /\ exception # "none")

LastRow == out_frame.rows[count]
OwnRawPos == mica_pos[count]

\* The image of filelist that entry k of mica_events was read from: the
\* k-th image with tags.
CaptureSource(k) ==
    CHOOSE i \in 1..Len(filelist) :
        /\ filelist[i].tags
        /\ Cardinality({j \in 1..i : filelist[j].tags}) = k

\* Timestamps of the first and the last fix of MRK file k of the mission.
SegmentFirst(k) == get_P1_timestamp(mrk_file_list[k][1])
SegmentLast(k) == get_P1_timestamp(mrk_file_list[k][Len(mrk_file_list[k])])

\* Index in P1_events / P1_pos (1-based) of the first fix of MRK file k.
RECURSIVE SegmentStart(_)
SegmentStart(k) ==
    IF k = 1 THEN 1 ELSE SegmentStart(k - 1) + Len(mrk_file_list[k - 1])

QPos(pos) == <<Q(pos[1]), Q(pos[2]), Q(pos[3])>>
RowPos(row) == <<row[2], row[3], row[4]>>

\* The classification and the bracket of capture cnt of mica_events (1-based)
\* against the fixes events of the segments with the timestamps first and
\* last, by lines 417-454.
InMission(cnt, events, first, last) ==
    /\ ~(\/ mica_events[cnt] < first[1]
         \/ mica_events[cnt] > last[Len(last)])
    /\ ~\E k \in 1..(Len(first) - 1) :
           /\ mica_events[cnt] > last[k]
           /\ mica_events[cnt] < first[k + 1]

LeftOf(cnt, events) ==
    BracketLeft(find_nearest(events, mica_events[cnt]),
                At(events, find_nearest(events, mica_events[cnt])),
                mica_events[cnt])

\* The loop writes a row for capture cnt: line 447 finds its fix.
RowExists(cnt, events, first, last) ==
    InMission(cnt, events, first, last)
    => InRange(events, LeftOf(cnt, events) + 1)

\* The row lines 457-494 write for capture cnt from the fixes events at the
\* projected positions.
RowFrom(cnt, events, positions, first, last) ==
    LET T == mica_events[cnt]
        triggered == InMission(cnt, events, first, last)
        left == LeftOf(cnt, events)
        time1 == IF triggered THEN At(events, left) ELSE 0
        time2 == IF triggered THEN At(events, left + 1) ELSE 0
        pos1 == IF triggered THEN At(positions, left) ELSE <<0, 0, 0>>
        pos2 == IF triggered THEN At(positions, left + 1) ELSE <<0, 0, 0>>
        time_delta == TimeDelta(T, time1, time2)
    IN  Record(ImageName(cnt - 1),
               [c \in 1..3 |-> Interp(pos1[c], pos2[c], time_delta)],
               At(mica_pos, PosIndex(T)))

(***************************************************************************)
(* C1.  A run leaves exactly one data row per entry of mica_events in the  *)
(* output file, however it ends.                                           *)
(***************************************************************************)
C1_OneRowPerCapture ==
    pc \in {"done", "error"} => Len(out_frame.rows) = Len(mica_events)

(***************************************************************************)
(* C2.  A capture earlier than the first segment's first timestamp or      *)
(* later than the last segment's last timestamp gets a row with height 0   *)
(* and its own raw easting and northing.                                   *)
(***************************************************************************)
C2_OutsideMissionSentinel ==
    (/\ RowDone
     /\ \/ mica_events[count] < SegmentFirst(1)
        \/ mica_events[count] > SegmentLast(Len(mrk_file_list)))
    => /\ LastRow[4] = Q(0)
       /\ LastRow[2] = Q(OwnRawPos[1])
       /\ LastRow[3] = Q(OwnRawPos[2])

(***************************************************************************)
(* C3.  With two or more segments, a capture between one segment's last    *)
(* and the next segment's first timestamp is marked out-of-range, its row  *)
(* has height 0 and its own raw easting and northing, and the run raises   *)
(* no error.                                                               *)
(***************************************************************************)
C3_GapSentinel ==
    (/\ Attempted
     /\ \E k \in 1..(Len(mrk_file_list) - 1) :
           /\ loc.m_cam_time > SegmentLast(k)
           /\ loc.m_cam_time < SegmentFirst(k + 1))
    => /\ exception = "none"
       /\ RowDone
       /\ ~loc.P1_triggered
       /\ RowPos(LastRow) = <<Q(OwnRawPos[1]), Q(OwnRawPos[2]), Q(0)>>

(***************************************************************************)
(* C4.  A capture at exactly a segment's first timestamp is in-range with  *)
(* f = 0 and its row carries the position of that segment's first fix; a   *)
(* capture one time unit before the first segment's first timestamp is     *)
(* out-of-range.                                                           *)
(***************************************************************************)
C4_SegmentBoundary ==
    /\ \A k \in 1..Len(mrk_file_list) :
          (Attempted /\ loc.m_cam_time = SegmentFirst(k))
          => /\ RowDone
             /\ loc.P1_triggered
             /\ loc.time_delta = Q(0)
             /\ RowPos(LastRow) = QPos(P1_pos[SegmentStart(k)])
    /\ (RowDone /\ loc.m_cam_time = SegmentFirst(1) - 1) => ~loc.P1_triggered

(***************************************************************************)
(* C5.  A capture whose timestamp equals the timestamp of a primary fix is *)
(* processed without error, gets f = 0 and its row carries the position of *)
(* a fix logged at that timestamp.                                         *)
(***************************************************************************)
C5_CaptureAtFix ==
    (/\ Attempted
     /\ \E i \in 1..Len(P1_events) : P1_events[i] = loc.m_cam_time)
    => /\ exception = "none"
       /\ RowDone
       /\ loc.time_delta = Q(0)
       /\ \E i \in 1..Len(P1_events) :
             /\ P1_events[i] = loc.m_cam_time
             /\ RowPos(LastRow) = QPos(P1_pos[i])

(***************************************************************************)
(* C6.  For an in-range capture at T with bracket (T1, P1), (T2, P2) and   *)
(* T1 < T2, each of easting, northing and height of the row equals         *)
(* P1 + ((T - T1) / (T2 - T1)) * (P2 - P1).                                *)
(***************************************************************************)
C6_RowIsLinearInterpolation ==
    (RowDone /\ loc.P1_triggered /\ loc.time1 < loc.time2)
    => \A c \in 1..3 :
          LastRow[c + 1] =
              Norm(loc.upd_pos1[c] * (loc.time2 - loc.time1)
                     + (loc.m_cam_time - loc.time1)
                         * (loc.upd_pos2[c] - loc.upd_pos1[c]),
                   loc.time2 - loc.time1)

(***************************************************************************)
(* C7.  When the two fixes of the bracket of an in-range capture share one *)
(* timestamp, no division error is raised, f is 0 and the interpolated     *)
(* position is the position of the first fix of the bracket.               *)
(***************************************************************************)
C7_DegenerateBracket ==
    /\ exception # "ZeroDivisionError"
    /\ (RowDone /\ loc.P1_triggered /\ loc.time1 = loc.time2)
       => /\ loc.time_delta = Q(0)
          /\ loc.upd_micasense_pos =
                QPos(At(P1_pos, BracketLeft(loc.a, loc.P1_pos_time,
                                            loc.m_cam_time)))

\* An in-range capture whose bracket is two fixes logged at one timestamp
\* with different positions, interpolated and written.
C7_Witness ==
    /\ RowDone
    /\ loc.P1_triggered
    /\ loc.time1 = loc.time2
    /\ loc.upd_pos1 # loc.upd_pos2
    /\ At(P1_events, loc.a) = At(P1_events, loc.a + 1)

(***************************************************************************)
(* C8.  A row has the sentinel height 0 if and only if its capture was     *)
(* classified out-of-range, and the row of an in-range capture carries the *)
(* interpolated easting, northing and height.                              *)
(***************************************************************************)
C8_SentinelIffOutOfRange ==
    RowDone
    => /\ (LastRow[4] = Q(0)) <=> ~loc.P1_triggered
       /\ loc.P1_triggered => RowPos(LastRow) = loc.upd_micasense_pos

(***************************************************************************)
(* C9.  The row of an out-of-range capture carries the raw easting and     *)
(* northing of that same capture.                                          *)
(***************************************************************************)
C9_InvalidRowOwnRawPosition ==
    (RowDone /\ ~loc.P1_triggered)
    => /\ LastRow[2] = Q(OwnRawPos[1])
       /\ LastRow[3] = Q(OwnRawPos[2])

(***************************************************************************)
(* C10.  Row k is the row of the k-th capture read: its label is the name  *)
(* of the image the capture's timestamp and raw position were read from.   *)
(***************************************************************************)
C10_RowKeyedByOwnImage ==
    RowDone
    => /\ LastRow[1] = filelist[CaptureSource(count)].name
       /\ loc.m_cam_time = mica_timestamp(filelist[CaptureSource(count)])

(***************************************************************************)
(* C11.  An image whose SubSecTime is a negative number is read without    *)
(* error and its timestamp before the MICA_deltat correction is strictly   *)
(* earlier than its DateTimeOriginal; the corrected timestamp is that      *)
(* timestamp minus MICA_deltat.                                            *)
(***************************************************************************)
C11_NegativeSubSecSubtracted ==
    (/\ pc \in {"exif", "error"}
     /\ file_i = 1 \/ exception # "none"
     /\ filelist[1].tags
     /\ IntOfText(filelist[1].SubSecTime) < 0)
    => /\ exception = "none"
       /\ QLess(exif_loc.temp_timestamp,
                Q(1000 * filelist[1].DateTimeOriginal))
       /\ mica_events =
             <<QAdd(exif_loc.temp_timestamp, Q(-1000 * MICA_deltat))>>

\* SubSecTime "-5" read: the timestamp is half a second before
\* DateTimeOriginal.
C11_Witness ==
    /\ pc = "exif"
    /\ file_i = 1
    /\ filelist[1].tags
    /\ filelist[1].SubSecTime = [neg |-> TRUE, digits |-> <<5>>]
    /\ exif_loc.temp_timestamp = Q(1000 * filelist[1].DateTimeOriginal - 500)

(***************************************************************************)
(* C12.  The offset in milliseconds computed for a SubSecTime text is      *)
(* sign * 0.<digits> * 1000 with <digits> the digit string as reported,    *)
(* leading zeros included.                                                 *)
(***************************************************************************)
C12_OffsetFromReportedDigits ==
    (pc = "exif" /\ file_i = 1 /\ filelist[1].tags)
    => exif_loc.millisec =
          Norm((IF filelist[1].SubSecTime.neg THEN -1 ELSE 1)
                  * DigitsValue(filelist[1].SubSecTime.digits) * 1000,
               Pow10(Len(filelist[1].SubSecTime.digits)))

(***************************************************************************)
(* C16.  The EXIF loop raises no exception, and the entries of mica_events *)
(* and mica_pos are those of the images read that have every required      *)
(* tag, in order, each position projected from the image's own latitude,   *)
(* longitude and altitude: an image lacking a required tag adds nothing.   *)
(***************************************************************************)
Complete(file) == file.tags /\ file.present = RequiredTags

\* The images read so far that have every required tag, in order.
CompleteRead == SelectSeq(SubSeq(filelist, 1, file_i), Complete)

OwnPosition(file) ==
    <<transformer_transform(file.lat, file.lon)[1],
      transformer_transform(file.lat, file.lon)[2], file.alt>>

C16_IncompleteImageSkipped ==
    /\ exception = "none"
    /\ Len(mica_events) = Len(CompleteRead)
    /\ mica_pos = [j \in 1..Len(CompleteRead) |-> OwnPosition(CompleteRead[j])]

(***************************************************************************)
(* C13.  With the zero shift vector the P1 positions are those computed    *)
(* without line 378, and every row written is the row computed from those  *)
(* positions.                                                              *)
(***************************************************************************)
UnshiftedPosition(pos) ==
    <<transform_coordinates(pos[2], pos[1], pos[3]).easting,
      transform_coordinates(pos[2], pos[1], pos[3]).northing,
      transform_coordinates(pos[2], pos[1], pos[3]).altitude>>

UnshiftedP1_pos ==
    [i \in 1..Len(P1_pos_mrk) |-> UnshiftedPosition(P1_pos_mrk[i])]

C13_ZeroShiftIsNoShift ==
    /\ pc \in {"open", "loop", "done"} => P1_pos = UnshiftedP1_pos
    /\ RowDone
       => LastRow = RowFrom(count, P1_events, UnshiftedP1_pos,
                            P1_first_timestamp, P1_last_timestamp)

\* A row interpolated between two fixes at different positions, written by
\* a run with the zero shift vector.
C13_Witness ==
    /\ P1_shift_vec = <<0, 0, 0>>
    /\ RowDone
    /\ loc.P1_triggered
    /\ loc.time1 < loc.time2
    /\ loc.upd_pos1 # loc.upd_pos2
    /\ LastRow[4] # Q(0)

(***************************************************************************)
(* C14.  A line of an MRK file that does not parse stops no run while the  *)
(* MRK files are read, and once they are read P1_events holds the          *)
(* timestamps of all their well-formed lines, in order, and the first and  *)
(* last timestamp of each file are those of its first and last well-formed *)
(* line.                                                                   *)
(***************************************************************************)
WellFormedLines(file) == SelectSeq(file, WellFormed)

WellFormedEvents ==
    [i \in 1..Len(Flatten([k \in DOMAIN mrk_file_list |->
                              WellFormedLines(mrk_file_list[k])])) |->
        get_P1_timestamp(
            Flatten([k \in DOMAIN mrk_file_list |->
                        WellFormedLines(mrk_file_list[k])])[i])]

C14_MalformedLineSkipped ==
    /\ ~(pc = "error" /\ loop_count <= Len(mrk_file_list))
    /\ pc \in {"open", "loop", "done"}
       => /\ P1_events = WellFormedEvents
          /\ \A k \in DOMAIN mrk_file_list :
                /\ P1_first_timestamp[k] =
                      get_P1_timestamp(At(WellFormedLines(mrk_file_list[k]), 0))
                /\ P1_last_timestamp[k] =
                      get_P1_timestamp(At(WellFormedLines(mrk_file_list[k]), -1))

(***************************************************************************)
(* C15.  A run that finds no fix (no MRK file, or none with a line) never  *)
(* creates the output file, writes no row and never reaches the            *)
(* interpolation loop.                                                     *)
(***************************************************************************)
C15_NoFixNoOutput ==
    (/\ pc \notin {"crs", "exif"}
     /\ \A k \in DOMAIN mrk_file_list : mrk_file_list[k] = <<>>)
    => /\ out_frame.state = "absent"
       /\ out_frame.rows = <<>>
       /\ pc \notin {"loop", "done"}

(***************************************************************************)
(* C17.  When the target CRS identifier is not resolved, the run ends at   *)
(* line 272: no image is read, no MRK file is listed or parsed and the     *)
(* output file is not opened.                                              *)
(***************************************************************************)
C17_UnresolvedCRSAbortsFirst ==
    (pc # "crs" /\ (~IsDecimal(epsg_crs) \/ epsg_crs \notin KnownCRS))
    => /\ pc = "error"
       /\ exception \in {"ValueError", "CRSError"}
       /\ file_i = 0
       /\ mica_events = <<>>
       /\ mica_pos = <<>>
       /\ mrk_file_list = <<>>
       /\ P1_events = <<>>
       /\ P1_pos_mrk = <<>>
       /\ out_frame.state = "absent"

\* A run with images to read, stopped by a code the database does not know.
C17_Witness ==
    /\ pc = "error"
    /\ exception = "CRSError"
    /\ epsg_crs = "99999"
    /\ Len(filelist) >= 1
    /\ filelist[1].tags

(***************************************************************************)
(* C18.  A run that completes has printed, as its last line, a summary     *)
(* with the numbers of valid, out-of-range and skipped captures, which add *)
(* up to the number of images of filelist.                                 *)
(***************************************************************************)
C18_SummaryAtEnd ==
    pc = "done"
    => \E valid \in 0..Len(filelist), out_of_range \in 0..Len(filelist) :
          /\ valid + out_of_range + (Len(filelist) - Len(mica_events))
                = Len(filelist)
          /\ stdout[Len(stdout)] =
                Line("summary",
                     <<valid, out_of_range, Len(filelist) - Len(mica_events)>>)

(***************************************************************************)
(* C19.  The projected position of every P1 fix is the one the selected    *)
(* transformer, which projects the geotags of the captures, gives for the  *)
(* fix's shifted latitude and longitude.                                   *)
(***************************************************************************)
C19_OnePipeline ==
    pc \in {"open", "loop", "done"}
    => \A i \in 1..Len(P1_pos) :
          <<P1_pos[i][1], P1_pos[i][2]>> =
              transformer_transform(Shifted(P1_pos_mrk[i], P1_shift_vec)[1],
                                    Shifted(P1_pos_mrk[i], P1_shift_vec)[2])

(***************************************************************************)
(* C20.  Every row an invocation writes for a capture that the first       *)
(* invocation of a fresh process writes a row for is that row: the row     *)
(* computed from the fixes of the MRK files of this invocation alone.      *)
(***************************************************************************)
FreshEvents ==
    [i \in 1..Len(Flatten(mrk_file_list)) |->
        get_P1_timestamp(Flatten(mrk_file_list)[i])]

FreshPos ==
    [i \in 1..Len(Flatten(mrk_file_list)) |->
        TransformedPosition(<<Flatten(mrk_file_list)[i].lat,
                              Flatten(mrk_file_list)[i].lon,
                              Flatten(mrk_file_list)[i].ellh>>)]

FreshFirst == [k \in DOMAIN mrk_file_list |-> SegmentFirst(k)]
FreshLast == [k \in DOMAIN mrk_file_list |-> SegmentLast(k)]

C20_RowsOfFreshProcess ==
    (RowDone /\ RowExists(count, FreshEvents, FreshFirst, FreshLast))
    => LastRow = RowFrom(count, FreshEvents, FreshPos, FreshFirst, FreshLast)

(***************************************************************************)
(* C24.  For every capture classified in-range, the bracket is (a, a + 1)  *)
(* when the timestamp of the nearest fix a is not later than the capture   *)
(* and (a - 1, a) when it is later; both indices are indices of P1_events, *)
(* no exception is raised and the times and positions interpolated         *)
(* between are those of the two fixes.                                     *)
(***************************************************************************)
C24_BracketByNearestFix ==
    (Attempted /\ loc.P1_triggered)
    => /\ exception = "none"
       /\ 0 <= BracketLeft(loc.a, At(P1_events, loc.a), loc.m_cam_time)
       /\ BracketLeft(loc.a, At(P1_events, loc.a), loc.m_cam_time) + 1
             < Len(P1_events)
       /\ loc.time1 =
             At(P1_events,
                BracketLeft(loc.a, At(P1_events, loc.a), loc.m_cam_time))
       /\ loc.time2 =
             At(P1_events,
                BracketLeft(loc.a, At(P1_events, loc.a), loc.m_cam_time) + 1)

(***************************************************************************)
(* C25.  The bracket of every in-range capture encloses the capture:       *)
(* time1 <= T <= time2, so that 0 <= time_delta <= 1 and every             *)
(* interpolated component lies between the components of the two fixes.   *)
(***************************************************************************)
QLeq(a, b) == a[1] * b[2] <= b[1] * a[2]

Between(x, p, q) ==
    \/ QLeq(Q(p), x) /\ QLeq(x, Q(q))
    \/ QLeq(Q(q), x) /\ QLeq(x, Q(p))

C25_BracketEnclosesCapture ==
    (RowDone /\ loc.P1_triggered)
    => /\ loc.time1 <= loc.m_cam_time
       /\ loc.m_cam_time <= loc.time2
       /\ QLeq(Q(0), loc.time_delta)
       /\ QLeq(loc.time_delta, Q(1))
       /\ \A c \in 1..3 :
             Between(loc.upd_micasense_pos[c], loc.upd_pos1[c], loc.upd_pos2[c])

(***************************************************************************)
(* C26.  The index a that find_nearest returns for P1_events and a capture *)
(* timestamp is an index of P1_events, no fix is nearer to the capture     *)
(* than fix a, and every fix before a is farther from it.                  *)
(***************************************************************************)
C26_NearestLowestIndex ==
    Attempted
    => /\ 0 <= loc.a
       /\ loc.a < Len(P1_events)
       /\ \A j \in 1..Len(P1_events) :
             Abs(P1_events[loc.a + 1] - loc.m_cam_time)
                <= Abs(P1_events[j] - loc.m_cam_time)
       /\ \A j \in 1..loc.a :
             Abs(P1_events[j] - loc.m_cam_time)
                > Abs(P1_events[loc.a + 1] - loc.m_cam_time)

\* A capture as near to a later fix as to fix a, in a list that is not
\* time-sorted.
C26_Witness ==
    /\ RowDone
    /\ \E j \in (loc.a + 2)..Len(P1_events) :
          Abs(P1_events[j] - loc.m_cam_time)
             = Abs(P1_events[loc.a + 1] - loc.m_cam_time)
    /\ \E i \in 1..(Len(P1_events) - 1) : P1_events[i] > P1_events[i + 1]

(***************************************************************************)
(* C22.  Once the MRK files are read, in whatever order they were found,   *)
(* segment 1 has the earliest first timestamp and the last segment the     *)
(* latest last timestamp, segment k ends before segment k + 1 begins, and  *)
(* P1_events is non-decreasing.                                            *)
(***************************************************************************)
C22_SegmentsInTimeOrder ==
    pc \in {"open", "loop", "done"}
    => /\ \A k \in DOMAIN mrk_file_list :
             /\ P1_first_timestamp[1] <= SegmentFirst(k)
             /\ P1_last_timestamp[mrk_file_count] >= SegmentLast(k)
       /\ \A k \in 1..(mrk_file_count - 1) :
             P1_last_timestamp[k] < P1_first_timestamp[k + 1]
       /\ \A i \in 1..(Len(P1_events) - 1) : P1_events[i] <= P1_events[i + 1]

(***************************************************************************)
(* C27.  Once line 282 is passed, the selected transformer is a pipeline   *)
(* of the group offered for the target CRS, no pipeline of the group has   *)
(* fewer steps, and every pipeline before it in the group has more steps.  *)
(***************************************************************************)
C27_FewestStepsFirstOfTies ==
    pc # "crs"
    => \E i \in 1..Len(TransformerGroup(epsg_crs)) :
          /\ TransformerGroup(epsg_crs)[i] = transformer
          /\ \A j \in 1..Len(TransformerGroup(epsg_crs)) :
                TransformerGroup(epsg_crs)[j].steps >= transformer.steps
          /\ \A j \in 1..(i - 1) :
                TransformerGroup(epsg_crs)[j].steps > transformer.steps

\* A group whose first pipeline has more steps and in which two pipelines
\* share the fewest steps: the earlier of the two is selected.
C27_Witness ==
    /\ pc = "exif"
    /\ TransformerGroup(epsg_crs)[1].steps > transformer.steps
    /\ \E i, j \in 1..Len(TransformerGroup(epsg_crs)) :
          /\ i < j
          /\ TransformerGroup(epsg_crs)[i] = transformer
          /\ TransformerGroup(epsg_crs)[j].steps = transformer.steps

(***************************************************************************)
(* C30.  A project that a run of process_metashape skips because its       *)
(* output file exists has a complete file: written to the end and closed,  *)
(* with the header and one row per image of filelist that has tags.        *)
(***************************************************************************)
C30_SkippedProjectComplete ==
    pc = "skipped"
    => /\ out_frame.state = "closed"
       /\ out_frame.header
       /\ Len(out_frame.rows)
             = Cardinality({k \in DOMAIN filelist : filelist[k].tags})

(***************************************************************************)
(* C29.  A failed transformation of a fix ends no run with an exception of *)
(* the interpolation, every entry of P1_pos is either marked as not        *)
(* transformed or the transformed position of its fix, and the row of an   *)
(* in-range capture whose two bracket fixes were transformed is the row    *)
(* interpolated between their transformed positions.                       *)
(***************************************************************************)
TransformedP1_pos ==
    [i \in 1..Len(P1_pos_mrk) |-> TransformedPosition(P1_pos_mrk[i])]

C29_FailedTransformContained ==
    /\ exception # "TypeError"
    /\ \A i \in 1..Len(P1_pos) :
          P1_pos[i] = NoPosition \/ P1_pos[i] = TransformedP1_pos[i]
    /\ (/\ RowDone
        /\ loc.P1_triggered
        /\ loc.upd_pos1 = TransformedP1_pos[LeftOf(count, P1_events) + 1]
        /\ loc.upd_pos2 = TransformedP1_pos[LeftOf(count, P1_events) + 2])
       => LastRow = RowFrom(count, P1_events, TransformedP1_pos,
                            P1_first_timestamp, P1_last_timestamp)

(***************************************************************************)
(* C21.  Every run ends: it reaches the close of the output file or an     *)
(* exception.                                                              *)
(***************************************************************************)
C21_RunTerminates == <>(pc \in {"done", "error"})

(***************************************************************************)
(* C23.  Every time compared in the loop of the custom variant is a number *)
(* made by one rule, whatever the machine's time zone: the number the      *)
(* classification uses for the first and the last timestamp of each MRK    *)
(* file is the entry of P1_events_epoch of the file's first and last fix,  *)
(* and each capture time is the number that rule gives for the capture's   *)
(* reading.  (First call of the process.)                                  *)
(***************************************************************************)
C23_OneTimeRepresentation ==
    pc = "interpolate" /\ Len(P1_pos_mrk) = Len(P1_events) =>
        /\ \A k \in 1..mrk_file_count :
              /\ timestamp(P1_first_timestamp[k], utcoffset)
                     = P1_events_epoch[SegmentStart(k)]
              /\ timestamp(P1_last_timestamp[k], utcoffset)
                     = P1_events_epoch[SegmentStart(k)
                                          + Len(mrk_file_list[k]) - 1]
        /\ \A j \in 1..Len(mica_events) :
              mica_events[j]
                  = timestamp(filelist[CaptureSource(j)].time
                                  - MICA_deltat_custom, 0)

(***************************************************************************)
(* C28.  In every call of the custom variant the loop's timestamp array    *)
(* and position array have the same length, and entry i of each comes from *)
(* line i of the MRK files read by this call.                              *)
(***************************************************************************)
C28_ArraysIndexAligned ==
    pc = "interpolate" =>
        LET lines == Flatten(mrk_file_list)
        IN  /\ Len(P1_events_epoch) = Len(lines)
            /\ Len(P1_pos) = Len(P1_events_epoch)
            /\ \A i \in 1..Len(lines) :
                  /\ P1_events_epoch[i]
                         = timestamp(get_P1_timestamp(lines[i]), 0)
                  /\ P1_pos[i] = Shifted(<<lines[i].lat, lines[i].lon,
                                           lines[i].ellh>>, P1_shift_vec)

====
